---- MODULE Spec2Model ----
(***************************************************************************)
(* Zephyr Scale MCP server (src/app.py): the request executor              *)
(* make_zephyr_request, the 45 endpoint tools built on it, and the         *)
(* start-up configuration, as a state machine over in-flight tool calls.   *)
(***************************************************************************)
EXTENDS Integers, Sequences, FiniteSets, TLC

(***************************************************************************)
(* Bounds of the model.                                                    *)
(***************************************************************************)
\* at most this many optional arguments of one call differ from their default
MaxNonDefault == 2

(***************************************************************************)
(* Python values: None, bool, int, str, list, dict (insertion-ordered      *)
(* sequence of <<key, value>> pairs).                                      *)
(***************************************************************************)
VNone == [t |-> "none"]
VBool(b) == [t |-> "bool", v |-> b]
VInt(n) == [t |-> "int", v |-> n]
VStr(s) == [t |-> "str", v |-> s]
VList(l) == [t |-> "list", v |-> l]
VDict(kv) == [t |-> "dict", v |-> kv]

\* the result of evaluating a Python expression: a value or a raised exception
Ok(x) == [ok |-> TRUE, val |-> x]
Raise(e) == [ok |-> FALSE, exc |-> e]

\* bool(x)
Truthy(x) ==
    CASE x.t = "none" -> FALSE
      [] x.t = "bool" -> x.v
      [] x.t = "int"  -> x.v # 0
      [] x.t = "str"  -> x.v # ""
      [] x.t = "list" -> Len(x.v) > 0
      [] x.t = "dict" -> Len(x.v) > 0

Keys(d) == {d.v[i][1] : i \in 1..Len(d.v)}
Lookup(d, k) == d.v[CHOOSE i \in 1..Len(d.v) : d.v[i][1] = k][2]

\* text fragments used to decide `sub in s` on the strings of the model
Fragments == {"", "an ", " occurred"}
HasSubstring(sub, s) == \E a \in Fragments, b \in Fragments : s = a \o sub \o b

\* key in data
In(key, data) ==
    CASE data.t = "dict" -> Ok(key \in Keys(data))
      [] data.t = "list" -> Ok(\E i \in 1..Len(data.v) : data.v[i] = VStr(key))
      [] data.t = "str"  -> Ok(HasSubstring(key, data.v))
      [] OTHER           -> Raise("TypeError")

\* data[key]
GetItem(data, key) ==
    CASE data.t = "dict" -> IF key \in Keys(data) THEN Ok(Lookup(data, key))
                                                  ELSE Raise("KeyError")
      [] OTHER           -> Raise("TypeError")

\* data.get(key, default)
DictGet(data, key, default) ==
    CASE data.t = "dict" -> IF key \in Keys(data) THEN Ok(Lookup(data, key))
                                                  ELSE Ok(default)
      [] OTHER           -> Raise("AttributeError")

\* str(x) as an f-string interpolates it
PyStr(x) ==
    CASE x.t = "none" -> "None"
      [] x.t = "bool" -> IF x.v THEN "True" ELSE "False"
      [] x.t = "int"  -> ToString(x.v)
      [] x.t = "str"  -> x.v

\* the clamp left out: the argument is passed through
PyMin_NoClamp(x, n) == x

\* min(x, n) of two ints
PyMin(x, n) == IF n < x.v THEN VInt(n) ELSE x

(***************************************************************************)
(* json.loads and json.dumps(…, indent=2) on the texts of the model.       *)
(***************************************************************************)
TcFull == VDict(<< <<"id", VInt(1)>>, <<"key", VStr("SM-T1")>>,
                   <<"priority", VDict(<< <<"id", VInt(3)>> >>)>>,
                   <<"folder", VDict(<< <<"id", VInt(9)>> >>)>>,
                   <<"owner", VNone>> >>)
TcBare == VDict(<< <<"id", VInt(2)>> >>)
TcNullPriority == VDict(<< <<"id", VInt(3)>>, <<"priority", VNone>> >>)

\* json.loads(text): the decoded value, or JSONDecodeError with its message
JsonLoads(text) ==
    CASE text = "{}" -> Ok(VDict(<<>>))
      [] text = "{\"name\": \"n\"}" -> Ok(VDict(<< <<"name", VStr("n")>> >>))
      [] text = "{\"id\": 1}" -> Ok(VDict(<< <<"id", VInt(1)>> >>))
      [] text = "{\"error\": \"quota\"}" -> Ok(VDict(<< <<"error", VStr("quota")>> >>))
      [] text = "{\"values\": []}" -> Ok(VDict(<< <<"values", VList(<<>>)>> >>))
      [] text = "{\"values\": [{\"id\": 1, \"key\": \"SM-T1\", \"priority\": {\"id\": 3}, \"folder\": {\"id\": 9}, \"owner\": null}, {\"id\": 2}], \"total\": 2}"
            -> Ok(VDict(<< <<"values", VList(<<TcFull, TcBare>>)>>, <<"total", VInt(2)>> >>))
      [] text = "{\"values\": [{\"id\": 3, \"priority\": null}]}"
            -> Ok(VDict(<< <<"values", VList(<<TcNullPriority>>)>> >>))
      [] text = "[]" -> Ok(VList(<<>>))
      [] text = "5" -> Ok(VInt(5))
      [] text = "\"an error occurred\"" -> Ok(VStr("an error occurred"))
      [] text = "" -> Raise("Expecting value: line 1 column 1 (char 0)")
      [] text = "Not Found" -> Raise("Expecting value: line 1 column 1 (char 0)")
      [] text = "{bad json" -> Raise("Expecting property name enclosed in double quotes: line 1 column 2 (char 1)")

RECURSIVE Pad(_)
Pad(n) == IF n = 0 THEN "" ELSE "  " \o Pad(n - 1)

RECURSIVE JsonDumpsAt(_, _)
RECURSIVE JsonItems(_, _, _, _)
\* the items of a list (isDict = FALSE) or dict (TRUE) from index i on,
\* one per line at indentation level n
JsonItems(kv, i, n, isDict) ==
    IF i > Len(kv) THEN ""
    ELSE Pad(n)
         \o (IF isDict THEN "\"" \o kv[i][1] \o "\": " \o JsonDumpsAt(kv[i][2], n)
                       ELSE JsonDumpsAt(kv[i], n))
         \o (IF i < Len(kv) THEN ",\n" ELSE "\n")
         \o JsonItems(kv, i + 1, n, isDict)

\* json.dumps(x, indent=2) of a value nested at indentation level n
JsonDumpsAt(x, n) ==
    CASE x.t = "none" -> "null"
      [] x.t = "bool" -> IF x.v THEN "true" ELSE "false"
      [] x.t = "int"  -> ToString(x.v)
      [] x.t = "str"  -> "\"" \o x.v \o "\""
      [] x.t = "list" -> IF Len(x.v) = 0 THEN "[]"
                         ELSE "[\n" \o JsonItems(x.v, 1, n + 1, FALSE) \o Pad(n) \o "]"
      [] x.t = "dict" -> IF Len(x.v) = 0 THEN "{}"
                         ELSE "{\n" \o JsonItems(x.v, 1, n + 1, TRUE) \o Pad(n) \o "}"

JsonDumps(x) == JsonDumpsAt(x, 0)

(***************************************************************************)
(* Configuration (module level, src/app.py:16-26).                         *)
(***************************************************************************)
ZEPHYR_API_BASE == "https://api.zephyrscale.smartbear.com/v2"
EU_ZEPHYR_API_BASE == "https://eu.api.zephyrscale.smartbear.com/v2"

\* os.getenv of a variable that is not set
Unset == "<unset>"
\* the environments the process may be started in
TokenEnv == {Unset, "", "tok"}
RegionEnv == {Unset, "true", "TRUE", "1"}

\* str.lower() on the region flags of the model
Lower(s) == IF s = "TRUE" THEN "true" ELSE s

\* os.getenv("ZEPHYR_USE_EU_REGION", "false").lower() == "true"
RegionFlag(e) == Lower(IF e.region = Unset THEN "false" ELSE e.region) = "true"
\* only an unset variable stops the start: `if API_TOKEN is None`
TokenMissing_UnsetOnly(e) == e.token = Unset

\* `if not API_TOKEN: raise ValueError`
TokenMissing(e) == e.token = Unset \/ e.token = ""
ResolveBase(e) == IF RegionFlag(e) THEN EU_ZEPHYR_API_BASE ELSE ZEPHYR_API_BASE

(***************************************************************************)
(* The request executor make_zephyr_request (src/app.py:43-83).            *)
(***************************************************************************)
Timeout == 30

\* str.upper() on the method strings of the model
Upper(m) ==
    CASE m = "get" -> "GET"
      [] m = "Post" -> "POST"
      [] m = "put" -> "PUT"
      [] m = "Delete" -> "DELETE"
      [] m = "patch" -> "PATCH"
      [] OTHER -> m

\* the content type is left to the client
Headers_TokenOnly(token) == << <<"Authorization", "Bearer " \o token>> >>

\* the headers dict built at the top of make_zephyr_request
Headers(token) == << <<"Authorization", "Bearer " \o token>>,
                     <<"Content-Type", "application/json">> >>

\* a GET or DELETE passes no json= argument at all
NoBody == [t |-> "absent"]

\* the else branch falls back to a GET instead of raising
Dispatch_DefaultGet(method, url, data, params, token) ==
    LET M == Upper(method)
        R(verb, body) == Ok([verb |-> verb, url |-> url, headers |-> Headers(token),
                             json |-> body, params |-> params, timeout |-> Timeout])
    IN  CASE M = "POST"   -> R("POST", data)
          [] M = "PUT"    -> R("PUT", data)
          [] M = "DELETE" -> R("DELETE", NoBody)
          [] OTHER        -> R("GET", NoBody)

\* the if/elif chain on method.upper(): the request handed to the client,
\* or the ValueError of the else branch
Dispatch(method, url, data, params, token) ==
    LET M == Upper(method)
        R(verb, body) == Ok([verb |-> verb, url |-> url, headers |-> Headers(token),
                             json |-> body, params |-> params, timeout |-> Timeout])
    IN  CASE M = "GET"    -> R("GET", NoBody)
          [] M = "POST"   -> R("POST", data)
          [] M = "PUT"    -> R("PUT", data)
          [] M = "DELETE" -> R("DELETE", NoBody)
          [] OTHER        -> Raise("Unsupported HTTP method: " \o method)

\* the handler returns the bare message instead of an error record
ExceptException_BareMessage(msg) == VStr("Request failed: " \o msg)

\* `except Exception as e`: the message-only error record
ExceptException(msg) == VDict(<< <<"error", VStr("Request failed: " \o msg)>> >>)

\* the HTTP handler returns the message without the status
ExceptHTTPStatusError_NoStatus(status, text) ==
    VDict(<< <<"error", VStr("HTTP " \o ToString(status) \o ": " \o text)>> >>)

\* `except httpx.HTTPStatusError as e`: the error record with the status
ExceptHTTPStatusError(status, text) ==
    VDict(<< <<"error", VStr("HTTP " \o ToString(status) \o ": " \o text)>>,
             <<"status_code", VInt(status)>> >>)

\* only 4xx and 5xx statuses raise
RaisesForStatus_ClientServerOnly(status) == status >= 400

\* response.raise_for_status() raises unless the status is 2xx
RaisesForStatus(status) == ~(200 <= status /\ status <= 299)

\* the `not response.content` test left out
IsEmptyResponse_StatusOnly(r) == r.status = 204

\* `response.status_code == 204 or not response.content`
IsEmptyResponse(r) == r.status = 204 \/ r.content = ""

SuccessMarker == VDict(<< <<"success", VBool(TRUE)>> >>)

\* does the executor reach response.json() on transport result r
CallsJson(r) ==
    /\ r.kind = "response"
    /\ ~RaisesForStatus(r.status)
    /\ ~IsEmptyResponse(r)

\* the empty-body test comes before raise_for_status()
Complete_EmptyFirst(r) ==
    IF r.kind = "exception" THEN ExceptException(r.msg)
    ELSE IF IsEmptyResponse(r) THEN SuccessMarker
    ELSE IF RaisesForStatus(r.status) THEN ExceptHTTPStatusError(r.status, r.content)
    ELSE LET j == JsonLoads(r.content)
         IN  IF j.ok THEN j.val ELSE ExceptException(j.exc)

\* what the executor returns once the awaited client call has produced r:
\* a response, or a raised transport exception
Complete(r) ==
    IF r.kind = "exception" THEN ExceptException(r.msg)
    ELSE IF RaisesForStatus(r.status) THEN ExceptHTTPStatusError(r.status, r.content)
    ELSE IF IsEmptyResponse(r) THEN SuccessMarker
    ELSE LET j == JsonLoads(r.content)
         IN  IF j.ok THEN j.val ELSE ExceptException(j.exc)

(***************************************************************************)
(* The endpoint tools (src/app.py:89-1285).  Each tool is the plan of its  *)
(* body: the JSON-string argument it parses first (raw), the request it    *)
(* hands to make_zephyr_request, and how it shapes a non-error outcome.    *)
(***************************************************************************)
Echo == [kind |-> "echo"]
Fixed(text) == [kind |-> "fixed", text |-> text]
CasesShape == [kind |-> "cases"]

Plan(raw, verb, url, data, params, shape) ==
    [raw |-> raw, verb |-> verb, url |-> url, data |-> data,
     params |-> params, shape |-> shape]

\* `if x is not None: d[field] = x`
Opt_NotNone(a, name, field) == IF a[name] # VNone THEN << <<field, a[name]>> >> ELSE <<>>

\* `if x: d[field] = x`
Opt(a, name, field) == IF Truthy(a[name]) THEN << <<field, a[name]>> >> ELSE <<>>

\* the payload of a raw-payload tool once json.loads has succeeded
Loaded(x) == IF JsonLoads(x.v).ok THEN JsonLoads(x.v).val ELSE VNone

Paging(a) == << <<"maxResults", PyMin(a["max_results"], 1000)>>,
                <<"startAt", a["start_at"]>> >>

\* ---- test cases
get_test_cases(a, base) ==
    Plan("", "GET", base \o "/testcases", VNone,
         VDict(<< <<"projectKey", a["project_key"]>>,
                  <<"maxResults", PyMin(a["max_results"], 1000)>>,
                  <<"startAt", a["start_at"]>> >>
               \o Opt(a, "folder_id", "folderId")),
         CasesShape)

get_test_case(a, base) ==
    Plan("", "GET", base \o "/testcases/" \o PyStr(a["test_case_key"]), VNone, VNone, Echo)

\* labels is put in the payload whether or not it is given
create_test_case_LabelsAlways(a, base) ==
    Plan("", "POST", base \o "/testcases",
         VDict(<< <<"projectKey", a["project_key"]>>, <<"name", a["name"]>> >>
               \o Opt(a, "objective", "objective")
               \o Opt(a, "precondition", "precondition")
               \o Opt(a, "priority_name", "priorityName")
               \o Opt(a, "status_name", "statusName")
               \o Opt(a, "folder_id", "folderId")
               \o Opt(a, "owner_id", "ownerId")
               \o Opt(a, "estimated_time", "estimatedTime")
               \o Opt(a, "component_id", "componentId")
               \o << <<"labels", a["labels"]>> >>),
         VNone, Echo)

create_test_case(a, base) ==
    Plan("", "POST", base \o "/testcases",
         VDict(<< <<"projectKey", a["project_key"]>>, <<"name", a["name"]>> >>
               \o Opt(a, "objective", "objective")
               \o Opt(a, "precondition", "precondition")
               \o Opt(a, "priority_name", "priorityName")
               \o Opt(a, "status_name", "statusName")
               \o Opt(a, "folder_id", "folderId")
               \o Opt(a, "owner_id", "ownerId")
               \o Opt(a, "estimated_time", "estimatedTime")
               \o Opt(a, "component_id", "componentId")
               \o Opt(a, "labels", "labels")),
         VNone, Echo)

\* the update is sent as a PATCH
update_test_case_Patch(a, base) ==
    Plan("test_case_data", "PATCH", base \o "/testcases/" \o PyStr(a["test_case_key"]),
         Loaded(a["test_case_data"]), VNone, Fixed("Test case updated successfully"))

update_test_case(a, base) ==
    Plan("test_case_data", "PUT", base \o "/testcases/" \o PyStr(a["test_case_key"]),
         Loaded(a["test_case_data"]), VNone, Fixed("Test case updated successfully"))

get_test_case_links(a, base) ==
    Plan("", "GET", base \o "/testcases/" \o PyStr(a["test_case_key"]) \o "/links",
         VNone, VNone, Echo)

create_test_case_issue_link(a, base) ==
    Plan("", "POST", base \o "/testcases/" \o PyStr(a["test_case_key"]) \o "/links/issues",
         VDict(<< <<"issueId", a["issue_id"]>> >>), VNone, Echo)

create_test_case_web_link(a, base) ==
    Plan("", "POST", base \o "/testcases/" \o PyStr(a["test_case_key"]) \o "/links/weblinks",
         VDict(<< <<"url", a["url_link"]>> >> \o Opt(a, "description", "description")),
         VNone, Echo)

get_test_case_versions(a, base) ==
    Plan("", "GET", base \o "/testcases/" \o PyStr(a["test_case_key"]) \o "/versions", VNone,
         VDict(<< <<"maxResults", a["max_results"]>>, <<"startAt", a["start_at"]>> >>),
         Echo)

get_test_case_version(a, base) ==
    Plan("", "GET", base \o "/testcases/" \o PyStr(a["test_case_key"])
                         \o "/versions/" \o PyStr(a["version"]),
         VNone, VNone, Echo)

get_test_case_script(a, base) ==
    Plan("", "GET", base \o "/testcases/" \o PyStr(a["test_case_key"]) \o "/testscript",
         VNone, VNone, Echo)

create_test_case_script(a, base) ==
    Plan("", "POST", base \o "/testcases/" \o PyStr(a["test_case_key"]) \o "/testscript",
         VDict(<< <<"type", a["script_type"]>>, <<"text", a["text"]>> >>), VNone, Echo)

get_test_case_steps(a, base) ==
    Plan("", "GET", base \o "/testcases/" \o PyStr(a["test_case_key"]) \o "/teststeps", VNone,
         VDict(<< <<"maxResults", a["max_results"]>>, <<"startAt", a["start_at"]>> >>),
         Echo)

create_test_case_steps(a, base) ==
    Plan("steps_data", "POST", base \o "/testcases/" \o PyStr(a["test_case_key"]) \o "/teststeps",
         Loaded(a["steps_data"]), VNone, Echo)

\* ---- folders
get_folders(a, base) ==
    Plan("", "GET", base \o "/folders", VNone,
         VDict(Paging(a) \o Opt(a, "project_key", "projectKey")
                         \o Opt(a, "folder_type", "folderType")),
         Echo)

get_folder(a, base) ==
    Plan("", "GET", base \o "/folders/" \o PyStr(a["folder_id"]), VNone, VNone, Echo)

create_folder(a, base) ==
    Plan("", "POST", base \o "/folders",
         VDict(<< <<"projectKey", a["project_key"]>>, <<"name", a["name"]>>,
                  <<"folderType", a["folder_type"]>> >>
               \o Opt(a, "parent_id", "parentId")),
         VNone, Echo)

\* ---- test cycles
get_test_cycles(a, base) ==
    Plan("", "GET", base \o "/testcycles", VNone,
         VDict(Paging(a) \o Opt(a, "project_key", "projectKey")
                         \o Opt(a, "folder_id", "folderId")
                         \o Opt(a, "jira_project_version_id", "jiraProjectVersionId")),
         Echo)

get_test_cycle(a, base) ==
    Plan("", "GET", base \o "/testcycles/" \o PyStr(a["test_cycle_id_or_key"]),
         VNone, VNone, Echo)

create_test_cycle(a, base) ==
    Plan("", "POST", base \o "/testcycles",
         VDict(<< <<"projectKey", a["project_key"]>>, <<"name", a["name"]>> >>
               \o Opt(a, "description", "description")
               \o Opt(a, "planned_start_date", "plannedStartDate")
               \o Opt(a, "planned_end_date", "plannedEndDate")
               \o Opt(a, "status_name", "statusName")
               \o Opt(a, "folder_id", "folderId")
               \o Opt(a, "owner_id", "ownerId")
               \o Opt(a, "jira_project_version_id", "jiraProjectVersion")),
         VNone, Echo)

update_test_cycle(a, base) ==
    Plan("test_cycle_data", "PUT", base \o "/testcycles/" \o PyStr(a["test_cycle_id_or_key"]),
         Loaded(a["test_cycle_data"]), VNone, Fixed("Test cycle updated successfully"))

\* ---- test executions
get_test_executions(a, base) ==
    Plan("", "GET", base \o "/testexecutions", VNone,
         VDict(<< <<"maxResults", PyMin(a["max_results"], 1000)>>,
                  <<"startAt", a["start_at"]>>,
                  <<"onlyLastExecutions", a["only_last_executions"]>>,
                  <<"includeStepLinks", a["include_step_links"]>> >>
               \o Opt(a, "project_key", "projectKey")
               \o Opt(a, "test_cycle", "testCycle")
               \o Opt(a, "test_case", "testCase")
               \o Opt(a, "actual_end_date_after", "actualEndDateAfter")
               \o Opt(a, "actual_end_date_before", "actualEndDateBefore")
               \o Opt(a, "jira_project_version_id", "jiraProjectVersionId")),
         Echo)

get_test_execution(a, base) ==
    Plan("", "GET", base \o "/testexecutions/" \o PyStr(a["test_execution_id_or_key"]), VNone,
         VDict(<< <<"includeStepLinks", a["include_step_links"]>> >>), Echo)

create_test_execution(a, base) ==
    Plan("", "POST", base \o "/testexecutions",
         VDict(<< <<"projectKey", a["project_key"]>>,
                  <<"testCaseKey", a["test_case_key"]>>,
                  <<"testCycleKey", a["test_cycle_key"]>>,
                  <<"statusName", a["status_name"]>> >>
               \o Opt(a, "environment_name", "environmentName")
               \o Opt(a, "actual_end_date", "actualEndDate")
               \o Opt(a, "execution_time", "executionTime")
               \o Opt(a, "executed_by_id", "executedById")
               \o Opt(a, "assigned_to_id", "assignedToId")
               \o Opt(a, "comment", "comment")),
         VNone, Echo)

update_test_execution(a, base) ==
    Plan("execution_data", "PUT",
         base \o "/testexecutions/" \o PyStr(a["test_execution_id_or_key"]),
         Loaded(a["execution_data"]), VNone, Fixed("Test execution updated successfully"))

\* ---- projects
get_projects(a, base) ==
    Plan("", "GET", base \o "/projects", VNone, VDict(Paging(a)), Echo)

get_project(a, base) ==
    Plan("", "GET", base \o "/projects/" \o PyStr(a["project_id_or_key"]), VNone, VNone, Echo)

\* ---- priorities
get_priorities(a, base) ==
    Plan("", "GET", base \o "/priorities", VNone,
         VDict(Paging(a) \o Opt(a, "project_key", "projectKey")), Echo)

get_priority(a, base) ==
    Plan("", "GET", base \o "/priorities/" \o PyStr(a["priority_id"]), VNone, VNone, Echo)

create_priority(a, base) ==
    Plan("", "POST", base \o "/priorities",
         VDict(<< <<"projectKey", a["project_key"]>>, <<"name", a["name"]>> >>
               \o Opt(a, "description", "description")
               \o Opt(a, "color", "color")),
         VNone, Echo)

update_priority(a, base) ==
    Plan("priority_data", "PUT", base \o "/priorities/" \o PyStr(a["priority_id"]),
         Loaded(a["priority_data"]), VNone, Fixed("Priority updated successfully"))

\* ---- statuses
get_statuses(a, base) ==
    Plan("", "GET", base \o "/statuses", VNone,
         VDict(Paging(a) \o Opt(a, "project_key", "projectKey")
                         \o Opt(a, "status_type", "statusType")),
         Echo)

get_status(a, base) ==
    Plan("", "GET", base \o "/statuses/" \o PyStr(a["status_id"]), VNone, VNone, Echo)

create_status(a, base) ==
    Plan("", "POST", base \o "/statuses",
         VDict(<< <<"projectKey", a["project_key"]>>, <<"name", a["name"]>>,
                  <<"type", a["status_type"]>> >>
               \o Opt(a, "description", "description")
               \o Opt(a, "color", "color")),
         VNone, Echo)

update_status(a, base) ==
    Plan("status_data", "PUT", base \o "/statuses/" \o PyStr(a["status_id"]),
         Loaded(a["status_data"]), VNone, Fixed("Status updated successfully"))

\* ---- environments
get_environments(a, base) ==
    Plan("", "GET", base \o "/environments", VNone,
         VDict(Paging(a) \o Opt(a, "project_key", "projectKey")), Echo)

get_environment(a, base) ==
    Plan("", "GET", base \o "/environments/" \o PyStr(a["environment_id"]), VNone, VNone, Echo)

create_environment(a, base) ==
    Plan("", "POST", base \o "/environments",
         VDict(<< <<"projectKey", a["project_key"]>>, <<"name", a["name"]>> >>
               \o Opt(a, "description", "description")),
         VNone, Echo)

\* the payload is not validated before the request
update_environment_NoValidation(a, base) ==
    Plan("", "PUT", base \o "/environments/" \o PyStr(a["environment_id"]),
         Loaded(a["environment_data"]), VNone, Fixed("Environment updated successfully"))

update_environment(a, base) ==
    Plan("environment_data", "PUT", base \o "/environments/" \o PyStr(a["environment_id"]),
         Loaded(a["environment_data"]), VNone, Fixed("Environment updated successfully"))

\* ---- links, issue links, health check
delete_link(a, base) ==
    Plan("", "DELETE", base \o "/links/" \o PyStr(a["link_id"]), VNone, VNone,
         Fixed("Link deleted successfully"))

get_issue_link_test_cases(a, base) ==
    Plan("", "GET", base \o "/issuelinks/" \o PyStr(a["issue_key"]) \o "/testcases",
         VNone, VNone, Echo)

get_issue_link_test_cycles(a, base) ==
    Plan("", "GET", base \o "/issuelinks/" \o PyStr(a["issue_key"]) \o "/testcycles",
         VNone, VNone, Echo)

get_issue_link_test_plans(a, base) ==
    Plan("", "GET", base \o "/issuelinks/" \o PyStr(a["issue_key"]) \o "/testplans",
         VNone, VNone, Echo)

get_issue_link_test_executions(a, base) ==
    Plan("", "GET", base \o "/issuelinks/" \o PyStr(a["issue_key"]) \o "/executions",
         VNone, VNone, Echo)

health_check(a, base) ==
    Plan("", "GET", base \o "/healthcheck", VNone, VNone, Fixed("API is healthy"))

\* get_api_info builds its answer from the configuration alone
ApiInfo(token, base, eu) ==
    VDict(<< <<"api_base", VStr(base)>>,
             <<"region", VStr(IF eu THEN "EU" ELSE "Global")>>,
             <<"authentication", VStr(IF token # Unset /\ token # ""
                                      THEN "JWT Bearer Token" ELSE "Not configured")>>,
             <<"available_endpoints", VDict(<<
                <<"test_cases", VList(<<VStr("get_test_cases"), VStr("get_test_case"),
                    VStr("create_test_case"), VStr("update_test_case"),
                    VStr("get_test_case_links"), VStr("create_test_case_issue_link"),
                    VStr("create_test_case_web_link"), VStr("get_test_case_versions"),
                    VStr("get_test_case_version"), VStr("get_test_case_script"),
                    VStr("create_test_case_script"), VStr("get_test_case_steps"),
                    VStr("create_test_case_steps")>>)>>,
                <<"folders", VList(<<VStr("get_folders"), VStr("get_folder"),
                    VStr("create_folder")>>)>>,
                <<"test_cycles", VList(<<VStr("get_test_cycles"), VStr("get_test_cycle"),
                    VStr("create_test_cycle"), VStr("update_test_cycle")>>)>>,
                <<"test_executions", VList(<<VStr("get_test_executions"),
                    VStr("get_test_execution"), VStr("create_test_execution"),
                    VStr("update_test_execution")>>)>>,
                <<"projects", VList(<<VStr("get_projects"), VStr("get_project")>>)>>,
                <<"priorities", VList(<<VStr("get_priorities"), VStr("get_priority"),
                    VStr("create_priority"), VStr("update_priority")>>)>>,
                <<"statuses", VList(<<VStr("get_statuses"), VStr("get_status"),
                    VStr("create_status"), VStr("update_status")>>)>>,
                <<"environments", VList(<<VStr("get_environments"), VStr("get_environment"),
                    VStr("create_environment"), VStr("update_environment")>>)>>,
                <<"links", VList(<<VStr("delete_link")>>)>>,
                <<"issue_links", VList(<<VStr("get_issue_link_test_cases"),
                    VStr("get_issue_link_test_cycles"), VStr("get_issue_link_test_plans"),
                    VStr("get_issue_link_test_executions")>>)>>,
                <<"utilities", VList(<<VStr("health_check"), VStr("get_api_info")>>)>>
             >>)>> >>)

get_api_info(token, base, eu) == JsonDumps(ApiInfo(token, base, eu))

(***************************************************************************)
(* Signatures: the parameters of each tool with the kind of each one.      *)
(*   req_str, req_int, req_name : required                                 *)
(*   json             : required JSON string of a raw-payload tool         *)
(*   opt_str, opt_int, opt_list : Optional[...] = None                     *)
(*   flag : bool = False;  max25 / max10 : int = 25 / 10;  start : int = 0 *)
(***************************************************************************)
Sig(tool) ==
    CASE tool = "get_test_cases" ->
            << <<"project_key", "req_str">>, <<"folder_id", "opt_int">>,
               <<"max_results", "max25">>, <<"start_at", "start">> >>
      [] tool = "get_test_case" -> << <<"test_case_key", "req_str">> >>
      [] tool = "create_test_case" ->
            << <<"project_key", "req_str">>, <<"name", "req_name">>,
               <<"objective", "opt_str">>, <<"precondition", "opt_str">>,
               <<"priority_name", "opt_str">>, <<"status_name", "opt_str">>,
               <<"folder_id", "opt_int">>, <<"owner_id", "opt_str">>,
               <<"estimated_time", "opt_int">>, <<"component_id", "opt_int">>,
               <<"labels", "opt_list">> >>
      [] tool = "update_test_case" ->
            << <<"test_case_key", "req_str">>, <<"test_case_data", "json">> >>
      [] tool = "get_test_case_links" -> << <<"test_case_key", "req_str">> >>
      [] tool = "create_test_case_issue_link" ->
            << <<"test_case_key", "req_str">>, <<"issue_id", "req_int">> >>
      [] tool = "create_test_case_web_link" ->
            << <<"test_case_key", "req_str">>, <<"url_link", "req_str">>,
               <<"description", "opt_str">> >>
      [] tool = "get_test_case_versions" ->
            << <<"test_case_key", "req_str">>, <<"max_results", "max10">>,
               <<"start_at", "start">> >>
      [] tool = "get_test_case_version" ->
            << <<"test_case_key", "req_str">>, <<"version", "req_int">> >>
      [] tool = "get_test_case_script" -> << <<"test_case_key", "req_str">> >>
      [] tool = "create_test_case_script" ->
            << <<"test_case_key", "req_str">>, <<"script_type", "req_str">>,
               <<"text", "req_str">> >>
      [] tool = "get_test_case_steps" ->
            << <<"test_case_key", "req_str">>, <<"max_results", "max10">>,
               <<"start_at", "start">> >>
      [] tool = "create_test_case_steps" ->
            << <<"test_case_key", "req_str">>, <<"steps_data", "json">> >>
      [] tool = "get_folders" ->
            << <<"project_key", "opt_str">>, <<"folder_type", "opt_str">>,
               <<"max_results", "max25">>, <<"start_at", "start">> >>
      [] tool = "get_folder" -> << <<"folder_id", "req_int">> >>
      [] tool = "create_folder" ->
            << <<"project_key", "req_str">>, <<"name", "req_str">>,
               <<"folder_type", "req_str">>, <<"parent_id", "opt_int">> >>
      [] tool = "get_test_cycles" ->
            << <<"project_key", "opt_str">>, <<"folder_id", "opt_int">>,
               <<"jira_project_version_id", "opt_int">>,
               <<"max_results", "max25">>, <<"start_at", "start">> >>
      [] tool = "get_test_cycle" -> << <<"test_cycle_id_or_key", "req_str">> >>
      [] tool = "create_test_cycle" ->
            << <<"project_key", "req_str">>, <<"name", "req_str">>,
               <<"description", "opt_str">>, <<"planned_start_date", "opt_str">>,
               <<"planned_end_date", "opt_str">>, <<"status_name", "opt_str">>,
               <<"folder_id", "opt_int">>, <<"owner_id", "opt_str">>,
               <<"jira_project_version_id", "opt_int">> >>
      [] tool = "update_test_cycle" ->
            << <<"test_cycle_id_or_key", "req_str">>, <<"test_cycle_data", "json">> >>
      [] tool = "get_test_executions" ->
            << <<"project_key", "opt_str">>, <<"test_cycle", "opt_str">>,
               <<"test_case", "opt_str">>, <<"actual_end_date_after", "opt_str">>,
               <<"actual_end_date_before", "opt_str">>,
               <<"jira_project_version_id", "opt_int">>,
               <<"only_last_executions", "flag">>, <<"include_step_links", "flag">>,
               <<"max_results", "max25">>, <<"start_at", "start">> >>
      [] tool = "get_test_execution" ->
            << <<"test_execution_id_or_key", "req_str">>, <<"include_step_links", "flag">> >>
      [] tool = "create_test_execution" ->
            << <<"project_key", "req_str">>, <<"test_case_key", "req_str">>,
               <<"test_cycle_key", "req_str">>, <<"status_name", "req_str">>,
               <<"environment_name", "opt_str">>, <<"actual_end_date", "opt_str">>,
               <<"execution_time", "opt_int">>, <<"executed_by_id", "opt_str">>,
               <<"assigned_to_id", "opt_str">>, <<"comment", "opt_str">> >>
      [] tool = "update_test_execution" ->
            << <<"test_execution_id_or_key", "req_str">>, <<"execution_data", "json">> >>
      [] tool = "get_projects" -> << <<"max_results", "max25">>, <<"start_at", "start">> >>
      [] tool = "get_project" -> << <<"project_id_or_key", "req_str">> >>
      [] tool = "get_priorities" ->
            << <<"project_key", "opt_str">>, <<"max_results", "max25">>,
               <<"start_at", "start">> >>
      [] tool = "get_priority" -> << <<"priority_id", "req_int">> >>
      [] tool = "create_priority" ->
            << <<"project_key", "req_str">>, <<"name", "req_str">>,
               <<"description", "opt_str">>, <<"color", "opt_str">> >>
      [] tool = "update_priority" ->
            << <<"priority_id", "req_int">>, <<"priority_data", "json">> >>
      [] tool = "get_statuses" ->
            << <<"project_key", "opt_str">>, <<"status_type", "opt_str">>,
               <<"max_results", "max25">>, <<"start_at", "start">> >>
      [] tool = "get_status" -> << <<"status_id", "req_int">> >>
      [] tool = "create_status" ->
            << <<"project_key", "req_str">>, <<"name", "req_str">>,
               <<"status_type", "req_str">>, <<"description", "opt_str">>,
               <<"color", "opt_str">> >>
      [] tool = "update_status" ->
            << <<"status_id", "req_int">>, <<"status_data", "json">> >>
      [] tool = "get_environments" ->
            << <<"project_key", "opt_str">>, <<"max_results", "max25">>,
               <<"start_at", "start">> >>
      [] tool = "get_environment" -> << <<"environment_id", "req_int">> >>
      [] tool = "create_environment" ->
            << <<"project_key", "req_str">>, <<"name", "req_str">>,
               <<"description", "opt_str">> >>
      [] tool = "update_environment" ->
            << <<"environment_id", "req_int">>, <<"environment_data", "json">> >>
      [] tool = "delete_link" -> << <<"link_id", "req_int">> >>
      [] tool = "get_issue_link_test_cases" -> << <<"issue_key", "req_str">> >>
      [] tool = "get_issue_link_test_cycles" -> << <<"issue_key", "req_str">> >>
      [] tool = "get_issue_link_test_plans" -> << <<"issue_key", "req_str">> >>
      [] tool = "get_issue_link_test_executions" -> << <<"issue_key", "req_str">> >>
      [] tool = "health_check" -> <<>>
      [] tool = "get_api_info" -> <<>>

\* the tools registered with @mcp.tool()
Tools == {"get_test_cases", "get_test_case", "create_test_case", "update_test_case",
          "get_test_case_links", "create_test_case_issue_link",
          "create_test_case_web_link", "get_test_case_versions", "get_test_case_version",
          "get_test_case_script", "create_test_case_script", "get_test_case_steps",
          "create_test_case_steps", "get_folders", "get_folder", "create_folder",
          "get_test_cycles", "get_test_cycle", "create_test_cycle", "update_test_cycle",
          "get_test_executions", "get_test_execution", "create_test_execution",
          "update_test_execution", "get_projects", "get_project", "get_priorities",
          "get_priority", "create_priority", "update_priority", "get_statuses",
          "get_status", "create_status", "update_status", "get_environments",
          "get_environment", "create_environment", "update_environment", "delete_link",
          "get_issue_link_test_cases", "get_issue_link_test_cycles",
          "get_issue_link_test_plans", "get_issue_link_test_executions",
          "health_check", "get_api_info"}

\* the plan of a tool that calls the executor
ToolPlan(tool, a, base) ==
    CASE tool = "get_test_cases" -> get_test_cases(a, base)
      [] tool = "get_test_case" -> get_test_case(a, base)
      [] tool = "create_test_case" -> create_test_case(a, base)
      [] tool = "update_test_case" -> update_test_case(a, base)
      [] tool = "get_test_case_links" -> get_test_case_links(a, base)
      [] tool = "create_test_case_issue_link" -> create_test_case_issue_link(a, base)
      [] tool = "create_test_case_web_link" -> create_test_case_web_link(a, base)
      [] tool = "get_test_case_versions" -> get_test_case_versions(a, base)
      [] tool = "get_test_case_version" -> get_test_case_version(a, base)
      [] tool = "get_test_case_script" -> get_test_case_script(a, base)
      [] tool = "create_test_case_script" -> create_test_case_script(a, base)
      [] tool = "get_test_case_steps" -> get_test_case_steps(a, base)
      [] tool = "create_test_case_steps" -> create_test_case_steps(a, base)
      [] tool = "get_folders" -> get_folders(a, base)
      [] tool = "get_folder" -> get_folder(a, base)
      [] tool = "create_folder" -> create_folder(a, base)
      [] tool = "get_test_cycles" -> get_test_cycles(a, base)
      [] tool = "get_test_cycle" -> get_test_cycle(a, base)
      [] tool = "create_test_cycle" -> create_test_cycle(a, base)
      [] tool = "update_test_cycle" -> update_test_cycle(a, base)
      [] tool = "get_test_executions" -> get_test_executions(a, base)
      [] tool = "get_test_execution" -> get_test_execution(a, base)
      [] tool = "create_test_execution" -> create_test_execution(a, base)
      [] tool = "update_test_execution" -> update_test_execution(a, base)
      [] tool = "get_projects" -> get_projects(a, base)
      [] tool = "get_project" -> get_project(a, base)
      [] tool = "get_priorities" -> get_priorities(a, base)
      [] tool = "get_priority" -> get_priority(a, base)
      [] tool = "create_priority" -> create_priority(a, base)
      [] tool = "update_priority" -> update_priority(a, base)
      [] tool = "get_statuses" -> get_statuses(a, base)
      [] tool = "get_status" -> get_status(a, base)
      [] tool = "create_status" -> create_status(a, base)
      [] tool = "update_status" -> update_status(a, base)
      [] tool = "get_environments" -> get_environments(a, base)
      [] tool = "get_environment" -> get_environment(a, base)
      [] tool = "create_environment" -> create_environment(a, base)
      [] tool = "update_environment" -> update_environment(a, base)
      [] tool = "delete_link" -> delete_link(a, base)
      [] tool = "get_issue_link_test_cases" -> get_issue_link_test_cases(a, base)
      [] tool = "get_issue_link_test_cycles" -> get_issue_link_test_cycles(a, base)
      [] tool = "get_issue_link_test_plans" -> get_issue_link_test_plans(a, base)
      [] tool = "get_issue_link_test_executions" -> get_issue_link_test_executions(a, base)
      [] tool = "health_check" -> health_check(a, base)

(***************************************************************************)
(* Arguments of a call: every parameter at its base value, except at most  *)
(* MaxNonDefault of them, which take one of the other values of their kind.*)
(***************************************************************************)
BaseValue(kind) ==
    CASE kind = "req_str" -> VStr("SM")
      [] kind = "req_int" -> VInt(7)
      [] kind = "req_name" -> VStr("Login works")
      [] kind = "json"    -> VStr("{\"name\": \"n\"}")
      [] kind \in {"opt_str", "opt_int", "opt_list"} -> VNone
      [] kind = "flag"    -> VBool(FALSE)
      [] kind = "max25"   -> VInt(25)
      [] kind = "max10"   -> VInt(10)
      [] kind = "start"   -> VInt(0)

OtherValues(kind) ==
    CASE kind \in {"req_str", "req_int", "req_name"} -> {}
      [] kind = "json"     -> {VStr("{bad json"), VStr(""), VStr("{}")}
      [] kind = "opt_str"  -> {VStr(""), VStr("x")}
      [] kind = "opt_int"  -> {VInt(0), VInt(7)}
      [] kind = "opt_list" -> {VList(<<>>), VList(<<VStr("a")>>)}
      [] kind = "flag"     -> {VBool(TRUE)}
      [] kind \in {"max25", "max10"} -> {VInt(0), VInt(1000), VInt(1001), VInt(5000)}
      [] kind = "start"    -> {VInt(50)}

Kinds == {"req_str", "req_int", "req_name", "json", "opt_str", "opt_int", "opt_list",
          "flag", "max25", "max10", "start"}

ArgSets(tool) ==
    LET sig == Sig(tool)
        N == 1..Len(sig)
        Names == {sig[i][1] : i \in N}
        Idx(n) == CHOOSE i \in N : sig[i][1] = n
        All == UNION {OtherValues(k) : k \in Kinds}
    IN  UNION { { [n \in Names |-> IF Idx(n) \in D THEN g[Idx(n)]
                                                    ELSE BaseValue(sig[Idx(n)][2])]
                  : g \in {h \in [D -> All] : \A i \in D : h[i] \in OtherValues(sig[i][2])} }
                : D \in {E \in SUBSET N : Cardinality(E) <= MaxNonDefault} }

\* the arguments of a direct call of make_zephyr_request
Methods == {"GET", "get", "POST", "Post", "PUT", "put", "DELETE", "Delete",
            "PATCH", "patch", "HEAD", ""}
ExecutorArgs(base) ==
    [method : Methods, url : {base \o "/healthcheck"},
     data : {VNone, VDict(<< <<"name", VStr("n")>> >>)},
     params : {VNone, VDict(<< <<"startAt", VInt(0)>> >>)}]

(***************************************************************************)
(* What the transport can do with a request that was sent.                 *)
(***************************************************************************)
Statuses == {200, 204, 302, 404}
Contents == {"", "Not Found", "{}", "{\"id\": 1}", "{\"error\": \"quota\"}",
             "{\"values\": []}",
             "{\"values\": [{\"id\": 1, \"key\": \"SM-T1\", \"priority\": {\"id\": 3}, \"folder\": {\"id\": 9}, \"owner\": null}, {\"id\": 2}], \"total\": 2}",
             "{\"values\": [{\"id\": 3, \"priority\": null}]}",
             "[]", "5", "\"an error occurred\""}
TransportResults ==
    [kind : {"response"}, status : Statuses, content : Contents]
    \cup {[kind |-> "exception", exc |-> "ConnectError",
           msg |-> "All connection attempts failed"],
          [kind |-> "exception", exc |-> "ReadTimeout", msg |-> ""]}

(***************************************************************************)
(* The tail of a tool: the error check and the shaping of the outcome.     *)
(***************************************************************************)
Return(text) == [kind |-> "return", text |-> text]
Raised(exc) == [kind |-> "raise", exc |-> exc]

\* the values `for tc in x` visits
Iterate(x) ==
    CASE x.t = "list" -> Ok(x.v)
      [] x.t = "dict" -> Ok([i \in 1..Len(x.v) |-> VStr(x.v[i][1])])
      [] x.t \in {"none", "bool", "int"} -> Raise("TypeError")

\* the projection get_test_cases appends for one test case
ProjectCase(tc) ==
    IF tc.t # "dict" THEN Raise("AttributeError")
    ELSE LET F(k) == DictGet(tc, k, VNone).val
             priority == DictGet(DictGet(tc, "priority", VDict(<<>>)).val, "id", VNone)
             status == DictGet(DictGet(tc, "status", VDict(<<>>)).val, "id", VNone)
             folder == IF Truthy(F("folder")) THEN DictGet(F("folder"), "id", VNone)
                                              ELSE Ok(VNone)
             owner == IF Truthy(F("owner")) THEN DictGet(F("owner"), "accountId", VNone)
                                            ELSE Ok(VNone)
         IN  IF ~priority.ok \/ ~status.ok \/ ~folder.ok \/ ~owner.ok
             THEN Raise("AttributeError")
             ELSE Ok(VDict(<< <<"id", F("id")>>, <<"key", F("key")>>,
                              <<"name", F("name")>>, <<"priority", priority.val>>,
                              <<"status", status.val>>, <<"objective", F("objective")>>,
                              <<"precondition", F("precondition")>>,
                              <<"estimatedTime", F("estimatedTime")>>,
                              <<"createdOn", F("createdOn")>>,
                              <<"folder", folder.val>>, <<"owner", owner.val>> >>))

\* an empty page is projected like any other page
ShapeCases_NoEmptyCheck(data) ==
    LET test_cases == DictGet(data, "values", VList(<<>>))
    IN  IF ~test_cases.ok THEN Raised(test_cases.exc)
        ELSE LET it == Iterate(test_cases.val)
             IN  IF ~it.ok THEN Raised(it.exc)
                 ELSE IF \E i \in 1..Len(it.val) : ~ProjectCase(it.val[i]).ok
                 THEN Raised("AttributeError")
                 ELSE Return(JsonDumps(VDict(<<
                        <<"testCases",
                          VList([i \in 1..Len(it.val) |-> ProjectCase(it.val[i]).val])>>,
                        <<"pagination", VDict(<<
                            <<"startAt", DictGet(data, "startAt", VNone).val>>,
                            <<"maxResults", DictGet(data, "maxResults", VNone).val>>,
                            <<"total", DictGet(data, "total", VNone).val>>,
                            <<"isLast", DictGet(data, "isLast", VNone).val>> >>)>> >>)))

\* get_test_cases after its error check
ShapeCases(data) ==
    LET test_cases == DictGet(data, "values", VList(<<>>))
    IN  IF ~test_cases.ok THEN Raised(test_cases.exc)
        ELSE IF ~Truthy(test_cases.val) THEN Return("No test cases found.")
        ELSE LET it == Iterate(test_cases.val)
             IN  IF ~it.ok THEN Raised(it.exc)
                 ELSE IF \E i \in 1..Len(it.val) : ~ProjectCase(it.val[i]).ok
                 THEN Raised("AttributeError")
                 ELSE Return(JsonDumps(VDict(<<
                        <<"testCases",
                          VList([i \in 1..Len(it.val) |-> ProjectCase(it.val[i]).val])>>,
                        <<"pagination", VDict(<<
                            <<"startAt", DictGet(data, "startAt", VNone).val>>,
                            <<"maxResults", DictGet(data, "maxResults", VNone).val>>,
                            <<"total", DictGet(data, "total", VNone).val>>,
                            <<"isLast", DictGet(data, "isLast", VNone).val>> >>)>> >>)))

\* a tool with a fixed confirmation returns it without the error check
Finish_FixedUnchecked(shape, data) ==
    LET e == In("error", data)
    IN  IF shape.kind = "fixed" THEN Return(shape.text)
        ELSE IF ~e.ok THEN Raised(e.exc)
        ELSE IF e.val
        THEN LET m == GetItem(data, "error")
             IN  IF m.ok THEN Return("Error: " \o PyStr(m.val)) ELSE Raised(m.exc)
        ELSE CASE shape.kind = "echo"  -> Return(JsonDumps(data))
               [] shape.kind = "cases" -> ShapeCases(data)

\* `if "error" in data: return f"Error: {data['error']}"`, then the shaping
Finish(shape, data) ==
    LET e == In("error", data)
    IN  IF ~e.ok THEN Raised(e.exc)
        ELSE IF e.val
        THEN LET m == GetItem(data, "error")
             IN  IF m.ok THEN Return("Error: " \o PyStr(m.val)) ELSE Raised(m.exc)
        ELSE CASE shape.kind = "echo"  -> Return(JsonDumps(data))
               [] shape.kind = "fixed" -> Return(shape.text)
               [] shape.kind = "cases" -> ShapeCases(data)

\* a direct caller of the executor receives the outcome itself
Direct == [kind |-> "direct"]
GotOutcome == [kind |-> "outcome"]
AfterExecutor(shape, data) ==
    IF shape = Direct THEN GotOutcome ELSE Finish(shape, data)

(***************************************************************************)
(* State.                                                                  *)
(***************************************************************************)
VARIABLES
    proc,           \* "starting", "serving" or "failed" (import raised ValueError)
    API_TOKEN,      \* module globals, set once at import
    API_BASE,
    USE_EU_REGION,
    calls           \* the tool calls the host has dispatched, one record per slot

vars == <<proc, API_TOKEN, API_BASE, USE_EU_REGION, calls>>

NoShape == [kind |-> "none"]
NoReq == [verb |-> "none"]
NoDescriptor == [method |-> "none"]
NoResp == [kind |-> "none"]
NoOutcome == [t |-> "unset"]
NoRet == [kind |-> "none"]

\* pc: "idle", "awaiting" (suspended in the awaited client call) or "done"
\* sends: requests handed to the HTTP client;  execs: calls of the executor
\* scopes: `async with httpx.AsyncClient()` blocks entered;  open: one is open
\* passed: the arguments make_zephyr_request was called with
\* open: the AsyncClient scope is open;  decoded: response.json() was called
IdleCall == [pc |-> "idle", tool |-> "", args |-> <<>>, shape |-> NoShape,
             passed |-> NoDescriptor,
             req |-> NoReq, sends |-> 0, execs |-> 0, scopes |-> 0, open |-> FALSE,
             decoded |-> FALSE, resp |-> NoResp, outcome |-> NoOutcome, ret |-> NoRet]

\* `async with httpx.AsyncClient() as client:` entered
AsyncWithEnter(c) == [c EXCEPT !.scopes = @ + 1, !.open = TRUE]

\* the client is closed only when the block ends without an exception
AsyncWithExit_KeepOnError(c, raising) ==
    IF raising THEN c ELSE [c EXCEPT !.open = FALSE]

\* the block is left, by a return or by an exception: the client is closed
AsyncWithExit(c, raising) == [c EXCEPT !.open = FALSE]

\* the awaited call or one of the statements after it raises inside the block
Raises(r) ==
    \/ r.kind = "exception"
    \/ RaisesForStatus(r.status)
    \/ (~IsEmptyResponse(r) /\ ~JsonLoads(r.content).ok)

\* make_zephyr_request from its entry to the awaited client call, or to the
\* except clause when the method is not supported
Enter(c, method, url, data, params, token) ==
    LET d == Dispatch(method, url, data, params, token)
        e == [AsyncWithEnter(c) EXCEPT !.passed = [method |-> method, url |-> url,
                                                   data |-> data, params |-> params]]
    IN  IF d.ok
        THEN [e EXCEPT !.pc = "awaiting", !.execs = @ + 1,
                       !.req = d.val, !.sends = @ + 1]
        ELSE [AsyncWithExit(e, TRUE)
                 EXCEPT !.pc = "done", !.execs = @ + 1,
                        !.outcome = ExceptException(d.exc),
                        !.ret = AfterExecutor(c.shape, ExceptException(d.exc))]

\* a transport exception makes the executor send the request again
Resume_Retry(c, r) ==
    IF r.kind = "exception" /\ c.sends < 2
    THEN [c EXCEPT !.sends = @ + 1]
    ELSE [AsyncWithExit(c, Raises(r))
             EXCEPT !.pc = "done", !.resp = r,
                    !.decoded = CallsJson(r), !.outcome = Complete(r),
                    !.ret = AfterExecutor(c.shape, Complete(r))]

\* make_zephyr_request from the point its awaited client call produced r,
\* and the tail of the tool that called it
Resume(c, r) ==
    [AsyncWithExit(c, Raises(r))
        EXCEPT !.pc = "done", !.resp = r,
               !.decoded = CallsJson(r), !.outcome = Complete(r),
               !.ret = AfterExecutor(c.shape, Complete(r))]

\* a tool from its entry to its first suspension or to its return
ToolStart(tool, a, token, base, eu) ==
    LET c == [IdleCall EXCEPT !.tool = tool, !.args = a]
    IN  IF tool = "get_api_info"
        THEN [c EXCEPT !.pc = "done", !.ret = Return(get_api_info(token, base, eu))]
        ELSE LET p == ToolPlan(tool, a, base)
             IN  IF p.raw # "" /\ ~JsonLoads(a[p.raw].v).ok
                 THEN [c EXCEPT !.pc = "done",
                                !.ret = Return("Error: Invalid JSON format for " \o p.raw)]
                 ELSE Enter([c EXCEPT !.shape = p.shape],
                            p.verb, p.url, p.data, p.params, token)

Init ==
    /\ proc = "starting"
    /\ API_TOKEN = Unset
    /\ API_BASE = Unset
    /\ USE_EU_REGION = FALSE
    /\ calls = <<IdleCall>>

\* import of the module in an environment e (src/app.py:16-26): the token and
\* the region flag are read, then the missing token raises before API_BASE
\* is assigned
Startup ==
    /\ proc = "starting"
    /\ \E e \in [token : TokenEnv, region : RegionEnv] :
          IF TokenMissing(e)
          THEN /\ proc' = "failed"
               /\ API_TOKEN' = e.token
               /\ USE_EU_REGION' = RegionFlag(e)
               /\ UNCHANGED API_BASE
          ELSE /\ proc' = "serving"
               /\ API_TOKEN' = e.token
               /\ USE_EU_REGION' = RegionFlag(e)
               /\ API_BASE' = ResolveBase(e)
    /\ UNCHANGED calls

\* the host dispatches a tool call into slot s
Invoke(s) ==
    /\ proc = "serving"
    /\ calls[s].pc = "idle"
    /\ \E tool \in Tools : \E a \in ArgSets(tool) :
          calls' = [calls EXCEPT ![s] =
                       ToolStart(tool, a, API_TOKEN, API_BASE, USE_EU_REGION)]
    /\ UNCHANGED <<proc, API_TOKEN, API_BASE, USE_EU_REGION>>

\* make_zephyr_request is called on its own
CallExecutor(s) ==
    /\ proc = "serving"
    /\ calls[s].pc = "idle"
    /\ \E a \in ExecutorArgs(API_BASE) :
          calls' = [calls EXCEPT ![s] =
                       Enter([IdleCall EXCEPT !.tool = "make_zephyr_request",
                                              !.args = a, !.shape = Direct],
                             a.method, a.url, a.data, a.params, API_TOKEN)]
    /\ UNCHANGED <<proc, API_TOKEN, API_BASE, USE_EU_REGION>>

\* one client serves every call: what it receives resumes each suspended call
Route_SharedClient(cs, s, r) ==
    [i \in DOMAIN cs |-> IF cs[i].pc = "awaiting" THEN Resume(cs[i], r) ELSE cs[i]]

\* the client is a local of the call that created it: what it receives
\* resumes that call and no other
Route(cs, s, r) == [cs EXCEPT ![s] = Resume(cs[s], r)]

\* the awaited client call of slot s completes: a response or an exception
Respond(s) ==
    /\ calls[s].pc = "awaiting"
    /\ \E r \in TransportResults :
          calls' = Route(calls, s, r)
    /\ UNCHANGED <<proc, API_TOKEN, API_BASE, USE_EU_REGION>>

\* the host takes the result; the call is discarded
Deliver(s) ==
    /\ calls[s].pc = "done"
    /\ calls' = [calls EXCEPT ![s] = IdleCall]
    /\ UNCHANGED <<proc, API_TOKEN, API_BASE, USE_EU_REGION>>

Next ==
    \/ Startup
    \/ \E s \in DOMAIN calls : Invoke(s)
    \/ \E s \in DOMAIN calls : CallExecutor(s)
    \/ \E s \in DOMAIN calls : Respond(s)
    \/ \E s \in DOMAIN calls : Deliver(s)

Spec == Init /\ [][Next]_vars

\* The executor on its own, called with arbitrary arguments.  Every client
\* call is made with timeout=30.0, so an awaited call always completes, with
\* a response or with a timeout exception: Respond is weakly fair.
NextExecutor ==
    \/ Startup
    \/ \E s \in DOMAIN calls : CallExecutor(s)
    \/ \E s \in DOMAIN calls : Respond(s)
    \/ \E s \in DOMAIN calls : Deliver(s)

ExecutorSpec ==
    Init /\ [][NextExecutor]_vars /\ WF_vars(\E s \in DOMAIN calls : Respond(s))

\* Two calls in flight at once.  The host dispatches a second tool call while
\* the first is suspended in its request; the calls resume in either order.
\* A result carries the slot whose client received it (conn) and the number
\* of calls that were suspended when it arrived (inflight).
ConcTools == {"get_test_case", "get_test_cases", "update_test_case", "delete_link"}

ConcArgs(tool) ==
    IF tool = "get_test_cases"
    THEN {a \in ArgSets(tool) : a["start_at"] = VInt(0) /\ a["folder_id"] = VNone}
    ELSE ArgSets(tool)

ConcResults ==
    {r \in TransportResults :
        \/ r.kind = "exception" /\ r.exc = "ConnectError"
        \/ r.kind = "response" /\ r.status = 200
              /\ r.content \in {"{\"id\": 1}", "Not Found",
                                "{\"values\": [{\"id\": 1, \"key\": \"SM-T1\", \"priority\": {\"id\": 3}, \"folder\": {\"id\": 9}, \"owner\": null}, {\"id\": 2}], \"total\": 2}"}
        \/ r.kind = "response" /\ r.status = 204 /\ r.content = ""
        \/ r.kind = "response" /\ r.status = 404 /\ r.content = "Not Found"}

Received(cs, s, r) ==
    IF r.kind = "response"
    THEN [kind |-> "response", status |-> r.status, content |-> r.content, conn |-> s,
          inflight |-> Cardinality({t \in DOMAIN cs : cs[t].pc = "awaiting"})]
    ELSE [kind |-> "exception", exc |-> r.exc, msg |-> r.msg, conn |-> s,
          inflight |-> Cardinality({t \in DOMAIN cs : cs[t].pc = "awaiting"})]

ConcInit ==
    /\ proc = "starting"
    /\ API_TOKEN = Unset
    /\ API_BASE = Unset
    /\ USE_EU_REGION = FALSE
    /\ calls = <<IdleCall, IdleCall>>

ConcInvoke(s) ==
    /\ proc = "serving"
    /\ calls[s].pc = "idle"
    /\ \E tool \in ConcTools : \E a \in ConcArgs(tool) :
          calls' = [calls EXCEPT ![s] =
                       ToolStart(tool, a, API_TOKEN, API_BASE, USE_EU_REGION)]
    /\ UNCHANGED <<proc, API_TOKEN, API_BASE, USE_EU_REGION>>

ConcRespond(s) ==
    /\ calls[s].pc = "awaiting"
    /\ \E r \in ConcResults :
          calls' = Route(calls, s, Received(calls, s, r))
    /\ UNCHANGED <<proc, API_TOKEN, API_BASE, USE_EU_REGION>>

ConcNext ==
    \/ Startup
    \/ \E s \in DOMAIN calls : ConcInvoke(s)
    \/ \E s \in DOMAIN calls : ConcRespond(s)
    \/ \E s \in DOMAIN calls : Deliver(s)

ConcSpec == ConcInit /\ [][ConcNext]_vars

(***************************************************************************)
(* Vocabulary of the properties.                                           *)
(***************************************************************************)
Slots == DOMAIN calls
SupportedAnyCase == {"GET", "get", "POST", "Post", "PUT", "put", "DELETE", "Delete"}
UnsupportedMethods == {"PATCH", "patch", "HEAD", ""}

\* the call of slot s ran the executor directly / through a tool
IsDirect(c) == c.tool = "make_zephyr_request"
IsTool(c) == c.tool \in Tools

\* the uniform error record {error: message, status_code?: int}
IsErrorRecord(o) ==
    /\ o.t = "dict"
    /\ Keys(o) \in {{"error"}, {"error", "status_code"}}
    /\ Lookup(o, "error").t = "str"
    /\ "status_code" \in Keys(o) => Lookup(o, "status_code").t = "int"

\* the method string the call hands to the executor
MethodOf(c) == IF IsDirect(c) THEN c.args.method
                              ELSE ToolPlan(c.tool, c.args, API_BASE).verb

\* the keys of the body and of the query parameters of a request
RequestKeys(req) ==
    (IF req.json.t = "dict" THEN Keys(req.json) ELSE {})
    \cup (IF req.params.t = "dict" THEN Keys(req.params) ELSE {})

(***************************************************************************)
(* C1: a response with a non-2xx status makes make_zephyr_request return   *)
(* (not raise) an error record whose status_code is the response's status  *)
(* and whose error message is "HTTP <status>: <raw response text>".        *)
(***************************************************************************)
C1_HttpErrorRecord ==
    \A s \in Slots :
        LET c == calls[s]
        IN  (c.pc = "done" /\ c.resp.kind = "response"
             /\ ~(c.resp.status \in 200..299))
            => /\ c.outcome.t = "dict"
               /\ GetItem(c.outcome, "status_code") = Ok(VInt(c.resp.status))
               /\ GetItem(c.outcome, "error")
                    = Ok(VStr("HTTP " \o ToString(c.resp.status) \o ": " \o c.resp.content))
               /\ IsDirect(c) => c.ret = GotOutcome

C1_Witness ==
    \E s \in Slots :
        /\ calls[s].pc = "done" /\ IsDirect(calls[s])
        /\ calls[s].resp = [kind |-> "response", status |-> 302, content |-> "Not Found"]
        /\ calls[s].outcome = VDict(<< <<"error", VStr("HTTP 302: Not Found")>>,
                                       <<"status_code", VInt(302)>> >>)

(***************************************************************************)
(* C2 as stated: any response with status 204 or with an empty body makes  *)
(* make_zephyr_request return {success: true} without decoding JSON.       *)
(***************************************************************************)
C2_AnyStatusEmptySuccess ==
    \A s \in Slots :
        LET c == calls[s]
        IN  (c.pc = "done" /\ c.resp.kind = "response"
             /\ (c.resp.status = 204 \/ c.resp.content = ""))
            => c.outcome = SuccessMarker /\ ~c.decoded

(***************************************************************************)
(* C2 amended: any 2xx response with status 204 or with an empty body      *)
(* makes make_zephyr_request return {success: true}, for each of GET,      *)
(* POST, PUT and DELETE, without decoding JSON.                            *)
(***************************************************************************)
C2_EmptySuccess ==
    \A s \in Slots :
        LET c == calls[s]
        IN  (c.pc = "done" /\ c.resp.kind = "response"
             /\ c.resp.status \in 200..299
             /\ (c.resp.status = 204 \/ c.resp.content = ""))
            => /\ c.outcome = SuccessMarker
               /\ ~c.decoded
               /\ c.req.verb \in {"GET", "POST", "PUT", "DELETE"}

C2_Witness ==
    \E s \in Slots :
        /\ calls[s].pc = "done" /\ calls[s].req.verb = "POST"
        /\ calls[s].resp = [kind |-> "response", status |-> 200, content |-> ""]
        /\ calls[s].outcome = SuccessMarker

(***************************************************************************)
(* C3: a call of make_zephyr_request with a supported method hands exactly *)
(* one request to the HTTP client, whatever the outcome, and a tool calls  *)
(* the executor at most once.                                              *)
(***************************************************************************)
C3_SingleSend ==
    \A s \in Slots :
        LET c == calls[s]
        IN  /\ c.sends <= 1
            /\ c.execs <= 1
            /\ (c.execs = 1 /\ MethodOf(c) \in SupportedAnyCase) => c.sends = 1

C3_Witness ==
    \E s \in Slots :
        /\ calls[s].pc = "done" /\ IsTool(calls[s])
        /\ calls[s].resp.kind = "exception" /\ calls[s].resp.exc = "ReadTimeout"
        /\ calls[s].sends = 1 /\ calls[s].execs = 1

(***************************************************************************)
(* C4: every call of make_zephyr_request terminates, and when it has it    *)
(* has produced exactly one outcome, which is a decoded JSON value, the    *)
(* {success: true} marker or an error record; it has not raised, and no    *)
(* outcome exists before the call has finished.                            *)
(***************************************************************************)
C4_OutcomeShape ==
    \A s \in Slots :
        LET c == calls[s]
        IN  /\ (c.pc = "done" /\ c.execs = 1)
                => /\ c.outcome # NoOutcome
                   /\ \/ IsErrorRecord(c.outcome)
                      \/ c.outcome = SuccessMarker
                      \/ /\ c.decoded
                         /\ JsonLoads(c.resp.content) = Ok(c.outcome)
                   /\ IsDirect(c) => c.ret = GotOutcome
            /\ c.pc # "done" => c.outcome = NoOutcome

C4_OneOutcome ==
    /\ []C4_OutcomeShape
    /\ (calls[1].pc = "awaiting") ~> (calls[1].pc = "done")

C4_Witness ==
    \E s \in Slots :
        /\ calls[s].pc = "done" /\ IsDirect(calls[s])
        /\ calls[s].resp = [kind |-> "response", status |-> 200, content |-> "Not Found"]
        /\ IsErrorRecord(calls[s].outcome)
        /\ "status_code" \notin Keys(calls[s].outcome)

(***************************************************************************)
(* C5: a raw-payload tool whose JSON string argument is malformed returns  *)
(* "Error: Invalid JSON format for <argument name>" and neither the        *)
(* executor nor the transport is invoked during that call.                 *)
(***************************************************************************)
RawArgument(tool) ==
    CASE tool = "update_test_case" -> "test_case_data"
      [] tool = "create_test_case_steps" -> "steps_data"
      [] tool = "update_test_cycle" -> "test_cycle_data"
      [] tool = "update_test_execution" -> "execution_data"
      [] tool = "update_priority" -> "priority_data"
      [] tool = "update_status" -> "status_data"
      [] tool = "update_environment" -> "environment_data"
      [] OTHER -> ""

MalformedJson == {"{bad json", ""}

C5_InvalidJsonLocal ==
    \A s \in Slots :
        LET c == calls[s]
        IN  (c.pc # "idle" /\ RawArgument(c.tool) # ""
             /\ c.args[RawArgument(c.tool)].v \in MalformedJson)
            => /\ c.pc = "done"
               /\ c.ret = Return("Error: Invalid JSON format for " \o RawArgument(c.tool))
               /\ c.execs = 0
               /\ c.sends = 0

C5_Witness ==
    \E s \in Slots :
        /\ calls[s].pc = "done" /\ calls[s].tool = "update_environment"
        /\ calls[s].args["environment_data"] = VStr("{bad json")
        /\ calls[s].ret = Return("Error: Invalid JSON format for environment_data")
        /\ calls[s].sends = 0

(***************************************************************************)
(* C6: make_zephyr_request called with a method that is not GET, POST, PUT *)
(* or DELETE in any letter case sends no HTTP request and yields an error  *)
(* outcome, not a success value.                                           *)
(***************************************************************************)
C6_UnsupportedMethodLocal ==
    \A s \in Slots :
        LET c == calls[s]
        IN  (c.pc # "idle" /\ IsDirect(c) /\ c.args.method \in UnsupportedMethods)
            => /\ c.pc = "done"
               /\ c.sends = 0
               /\ c.req = NoReq
               /\ IsErrorRecord(c.outcome)
               /\ c.outcome # SuccessMarker

C6_Witness ==
    \E s \in Slots :
        /\ calls[s].pc = "done" /\ IsDirect(calls[s])
        /\ calls[s].args.method = "patch"
        /\ calls[s].outcome
             = VDict(<< <<"error", VStr("Request failed: Unsupported HTTP method: patch")>> >>)
        /\ calls[s].sends = 0

(***************************************************************************)
(* The upstream field of a parameter of a tool.                            *)
(***************************************************************************)
UpstreamField(tool, name) ==
    CASE name = "project_key" -> "projectKey"
      [] name = "folder_id" -> "folderId"
      [] name = "max_results" -> "maxResults"
      [] name = "start_at" -> "startAt"
      [] name = "priority_name" -> "priorityName"
      [] name = "status_name" -> "statusName"
      [] name = "owner_id" -> "ownerId"
      [] name = "estimated_time" -> "estimatedTime"
      [] name = "component_id" -> "componentId"
      [] name = "folder_type" -> "folderType"
      [] name = "parent_id" -> "parentId"
      [] name = "jira_project_version_id" ->
            IF tool = "create_test_cycle" THEN "jiraProjectVersion"
                                          ELSE "jiraProjectVersionId"
      [] name = "planned_start_date" -> "plannedStartDate"
      [] name = "planned_end_date" -> "plannedEndDate"
      [] name = "test_cycle" -> "testCycle"
      [] name = "test_case" -> "testCase"
      [] name = "actual_end_date_after" -> "actualEndDateAfter"
      [] name = "actual_end_date_before" -> "actualEndDateBefore"
      [] name = "only_last_executions" -> "onlyLastExecutions"
      [] name = "include_step_links" -> "includeStepLinks"
      [] name = "environment_name" -> "environmentName"
      [] name = "actual_end_date" -> "actualEndDate"
      [] name = "execution_time" -> "executionTime"
      [] name = "executed_by_id" -> "executedById"
      [] name = "assigned_to_id" -> "assignedToId"
      [] name = "status_type" -> "statusType"
      [] OTHER -> name

\* the kinds of parameter that have a default
DefaultKinds == {"opt_str", "opt_int", "opt_list", "flag", "max25", "max10", "start"}
\* the kinds declared Optional[...] = None
NoneDefaultKinds == {"opt_str", "opt_int", "opt_list"}

\* in the request of call c, no falsy parameter of the given kinds has its
\* upstream field in the body or in the query
FalsyOmitted(c, kinds) ==
    \A i \in 1..Len(Sig(c.tool)) :
        LET name == Sig(c.tool)[i][1]
            kind == Sig(c.tool)[i][2]
        IN  (kind \in kinds /\ ~Truthy(c.args[name]))
            => UpstreamField(c.tool, name) \notin RequestKeys(c.req)

(***************************************************************************)
(* C7 as stated: for every tool and every parameter with a default, a      *)
(* falsy value keeps the upstream field out of the body and the query.     *)
(***************************************************************************)
C7_EveryDefaultedFalsyOmitted ==
    \A s \in Slots :
        (IsTool(calls[s]) /\ calls[s].req # NoReq)
        => FalsyOmitted(calls[s], DefaultKinds)

(***************************************************************************)
(* C7 amended: for every tool and every parameter declared Optional with   *)
(* default None, a falsy value (None, empty string, 0, empty list) keeps   *)
(* the upstream field out of the body and the query.  max_results,         *)
(* start_at, only_last_executions and include_step_links are sent always.  *)
(***************************************************************************)
C7_OptionalFalsyOmitted ==
    \A s \in Slots :
        (IsTool(calls[s]) /\ calls[s].req # NoReq)
        => FalsyOmitted(calls[s], NoneDefaultKinds)

C7_Witness ==
    \E s \in Slots :
        /\ calls[s].pc = "awaiting" /\ calls[s].tool = "create_test_case"
        /\ calls[s].args["folder_id"] = VInt(0)
        /\ calls[s].args["objective"] = VStr("")
        /\ Keys(calls[s].req.json) = {"projectKey", "name"}

(***************************************************************************)
(* C8 as stated: each of the ten listing tools that accept max_results     *)
(* sends a maxResults that never exceeds 1000.                             *)
(***************************************************************************)
ListingTools == {"get_test_cases", "get_test_case_versions", "get_test_case_steps",
                 "get_folders", "get_test_cycles", "get_test_executions",
                 "get_projects", "get_priorities", "get_statuses", "get_environments"}
UnclampedTools == {"get_test_case_versions", "get_test_case_steps"}

SentMaxResults(c) == Lookup(c.req.params, "maxResults").v

C8_AllListingClamped ==
    \A s \in Slots :
        (calls[s].tool \in ListingTools /\ calls[s].req # NoReq)
        => SentMaxResults(calls[s]) <= 1000

(***************************************************************************)
(* C8 amended: get_test_cases, get_folders, get_test_cycles,               *)
(* get_test_executions, get_projects, get_priorities, get_statuses and     *)
(* get_environments send a maxResults that never exceeds 1000 (5000 is     *)
(* sent as 1000); get_test_case_versions and get_test_case_steps send      *)
(* max_results as given.                                                   *)
(***************************************************************************)
C8_ClampedExceptVersionsSteps ==
    \A s \in Slots :
        LET c == calls[s]
        IN  (c.tool \in ListingTools /\ c.req # NoReq)
            => IF c.tool \in UnclampedTools
               THEN SentMaxResults(c) = c.args["max_results"].v
               ELSE /\ SentMaxResults(c) <= 1000
                    /\ c.args["max_results"].v <= 1000
                         => SentMaxResults(c) = c.args["max_results"].v

C8_Witness ==
    \E s \in Slots :
        /\ calls[s].pc = "awaiting" /\ calls[s].tool = "get_statuses"
        /\ calls[s].args["max_results"] = VInt(5000)
        /\ SentMaxResults(calls[s]) = 1000

(***************************************************************************)
(* C9: when the executor's outcome is an error record with message m, the  *)
(* tool returns exactly "Error: " followed by m, and neither a success     *)
(* payload nor a confirmation sentence.                                    *)
(***************************************************************************)
C9_ErrorResurfaced ==
    \A s \in Slots :
        LET c == calls[s]
        IN  (c.pc = "done" /\ IsTool(c) /\ c.execs = 1 /\ IsErrorRecord(c.outcome))
            => c.ret = Return("Error: " \o Lookup(c.outcome, "error").v)

C9_Witness ==
    \E s \in Slots :
        /\ calls[s].pc = "done" /\ calls[s].tool = "get_test_case"
        /\ calls[s].resp = [kind |-> "response", status |-> 404, content |-> "Not Found"]
        /\ calls[s].ret = Return("Error: HTTP 404: Not Found")

(***************************************************************************)
(* C10: every finished tool invocation has returned a single text that is  *)
(* a 2-space-indented JSON payload, a fixed sentence or an "Error: "-      *)
(* prefixed string.                                                        *)
(***************************************************************************)
FixedSentences == {"No test cases found.", "Test case updated successfully",
                   "Test cycle updated successfully",
                   "Test execution updated successfully",
                   "Priority updated successfully", "Status updated successfully",
                   "Environment updated successfully", "Link deleted successfully",
                   "API is healthy"}

IsErrorText(c) ==
    \/ /\ RawArgument(c.tool) # ""
       /\ c.ret.text = "Error: Invalid JSON format for " \o RawArgument(c.tool)
    \/ /\ c.outcome.t = "dict" /\ "error" \in Keys(c.outcome)
       /\ c.ret.text = "Error: " \o PyStr(Lookup(c.outcome, "error"))

IsJsonText(c) ==
    \/ c.outcome # NoOutcome /\ c.ret.text = JsonDumps(c.outcome)
    \/ c.tool = "get_api_info"
       /\ c.ret.text = JsonDumps(ApiInfo(API_TOKEN, API_BASE, USE_EU_REGION))
    \/ /\ c.tool = "get_test_cases"
       /\ ShapeCases(c.outcome).kind = "return"
       /\ ShapeCases(c.outcome).text # "No test cases found."
       /\ c.ret.text = ShapeCases(c.outcome).text

C10_SingleTextValue ==
    \A s \in Slots :
        LET c == calls[s]
        IN  (c.pc = "done" /\ IsTool(c))
            => /\ c.ret.kind = "return"
               /\ \/ IsErrorText(c)
                  \/ c.ret.text \in FixedSentences
                  \/ IsJsonText(c)

\* every text a tool does return has one of the three forms
C10_ReturnedTextsWellFormed ==
    \A s \in Slots :
        LET c == calls[s]
        IN  (c.pc = "done" /\ IsTool(c) /\ c.ret.kind = "return")
            => \/ IsErrorText(c)
               \/ c.ret.text \in FixedSentences
               \/ IsJsonText(c)

(***************************************************************************)
(* C11: the POST body of create_test_case has exactly the keys projectKey  *)
(* and name plus the upstream field of each truthy optional argument, each *)
(* once and with the argument's value; with project_key "SM", name         *)
(* "Login works" and no optional argument the body is exactly              *)
(* {projectKey: "SM", name: "Login works"}.                                *)
(***************************************************************************)
TruthyOptionalFields(c) ==
    {UpstreamField(c.tool, Sig(c.tool)[i][1]) :
        i \in {j \in 1..Len(Sig(c.tool)) :
                  /\ Sig(c.tool)[j][2] \in NoneDefaultKinds
                  /\ Truthy(c.args[Sig(c.tool)[j][1]])}}

C11_CreateBodyKeys ==
    \A s \in Slots :
        LET c == calls[s]
        IN  (c.tool = "create_test_case" /\ c.pc # "idle")
            => /\ c.req.verb = "POST"
               /\ c.req.json.t = "dict"
               /\ Keys(c.req.json) = {"projectKey", "name"} \cup TruthyOptionalFields(c)
               /\ Len(c.req.json.v) = Cardinality(Keys(c.req.json))
               /\ Lookup(c.req.json, "projectKey") = c.args["project_key"]
               /\ Lookup(c.req.json, "name") = c.args["name"]
               /\ \A i \in 1..Len(Sig(c.tool)) :
                     UpstreamField(c.tool, Sig(c.tool)[i][1]) \in TruthyOptionalFields(c)
                     => Lookup(c.req.json, UpstreamField(c.tool, Sig(c.tool)[i][1]))
                          = c.args[Sig(c.tool)[i][1]]
               /\ TruthyOptionalFields(c) = {}
                     => c.req.json = VDict(<< <<"projectKey", VStr("SM")>>,
                                              <<"name", VStr("Login works")>> >>)

C11_Witness ==
    \E s \in Slots :
        /\ calls[s].tool = "create_test_case" /\ calls[s].pc = "awaiting"
        /\ \A i \in 3..11 : calls[s].args[Sig("create_test_case")[i][1]] = VNone
        /\ calls[s].req.json = VDict(<< <<"projectKey", VStr("SM")>>,
                                        <<"name", VStr("Login works")>> >>)

C11_WitnessOptionals ==
    \E s \in Slots :
        /\ calls[s].tool = "create_test_case" /\ calls[s].pc = "awaiting"
        /\ calls[s].args["folder_id"] = VInt(7)
        /\ calls[s].args["labels"] = VList(<<>>)
        /\ Keys(calls[s].req.json) = {"projectKey", "name", "folderId"}

(***************************************************************************)
(* C12: when the outcome get_test_cases receives is an object without the  *)
(* key "error" whose "values" is the empty list or missing, the tool       *)
(* returns the text "No test cases found." and not a JSON projection,      *)
(* whatever max_results and start_at were.                                 *)
(***************************************************************************)
NoValues(o) ==
    /\ o.t = "dict"
    /\ "error" \notin Keys(o)
    /\ "values" \in Keys(o) => Lookup(o, "values") = VList(<<>>)

C12_NoTestCasesFound ==
    \A s \in Slots :
        (calls[s].tool = "get_test_cases" /\ calls[s].pc = "done"
            /\ NoValues(calls[s].outcome))
        => calls[s].ret = Return("No test cases found.")

C12_Witness ==
    \E s \in Slots :
        /\ calls[s].tool = "get_test_cases" /\ calls[s].pc = "done"
        /\ calls[s].args["max_results"] = VInt(25)
        /\ calls[s].args["start_at"] = VInt(0)
        /\ calls[s].resp.kind = "response" /\ calls[s].resp.status = 200
        /\ calls[s].outcome = VDict(<< <<"values", VList(<<>>)>> >>)
        /\ calls[s].ret = Return("No test cases found.")

C12_WitnessMissing ==
    \E s \in Slots :
        /\ calls[s].tool = "get_test_cases" /\ calls[s].pc = "done"
        /\ calls[s].args["max_results"] # VInt(25)
        /\ NoValues(calls[s].outcome)
        /\ "values" \notin Keys(calls[s].outcome)
        /\ calls[s].ret = Return("No test cases found.")

(***************************************************************************)
(* C13: every call of the executor enters exactly one client scope of its  *)
(* own, the scope is open while the call is suspended in the request, and  *)
(* it is closed when the call has returned, on each exit path: decoded     *)
(* body, empty body, HTTP error status, transport exception, undecodable   *)
(* body and unsupported method.                                            *)
(***************************************************************************)
ExitPath(c) ==
    IF c.execs = 0 \/ c.pc # "done" THEN "none"
    ELSE IF c.resp = NoResp THEN "unsupported method"
    ELSE IF c.resp.kind = "exception" THEN "transport exception"
    ELSE IF RaisesForStatus(c.resp.status) THEN "HTTP error"
    ELSE IF IsEmptyResponse(c.resp) THEN "empty body"
    ELSE IF JsonLoads(c.resp.content).ok THEN "success"
    ELSE "decode failure"

C13_ScopeClosedOnReturn ==
    \A s \in Slots :
        /\ calls[s].scopes = calls[s].execs
        /\ calls[s].open <=> (calls[s].pc = "awaiting")
        /\ (calls[s].pc = "done" /\ calls[s].execs > 0)
              => /\ ~calls[s].open
                 /\ calls[s].scopes = 1
                 /\ ExitPath(calls[s]) \in
                       {"success", "empty body", "HTTP error", "transport exception",
                        "decode failure", "unsupported method"}

C13_Witness ==
    \E s \in Slots : ExitPath(calls[s]) = "transport exception" /\ ~calls[s].open

C13_WitnessSuccess ==
    \E s \in Slots : ExitPath(calls[s]) = "success" /\ ~calls[s].open

C13_WitnessEmpty ==
    \E s \in Slots : ExitPath(calls[s]) = "empty body" /\ ~calls[s].open

C13_WitnessHttpError ==
    \E s \in Slots : ExitPath(calls[s]) = "HTTP error" /\ ~calls[s].open

C13_WitnessDecode ==
    \E s \in Slots : ExitPath(calls[s]) = "decode failure" /\ ~calls[s].open

C13_WitnessUnsupported ==
    \E s \in Slots :
        ExitPath(calls[s]) = "unsupported method" /\ ~calls[s].open /\ calls[s].scopes = 1

(***************************************************************************)
(* C14: with two tool calls in flight at once, under every interleaving,   *)
(* each call's request and returned text are those the same call produces  *)
(* when it runs alone with the same arguments and receives the same        *)
(* result, the result a call resumes with is the one its own client        *)
(* received, and a step of one call changes neither the other call nor the *)
(* configuration.                                                          *)
(***************************************************************************)
Alone(tool, a, r) ==
    LET c == ToolStart(tool, a, API_TOKEN, API_BASE, USE_EU_REGION)
    IN  IF c.pc = "awaiting" /\ r # NoResp THEN Resume(c, r) ELSE c

C14_AsAlone ==
    \A s \in Slots :
        calls[s].pc # "idle"
        => /\ calls[s] = Alone(calls[s].tool, calls[s].args, calls[s].resp)
           /\ calls[s].req = Alone(calls[s].tool, calls[s].args, NoResp).req
           /\ calls[s].resp # NoResp => calls[s].resp.conn = s

C14_OneCallPerStep ==
    /\ \A s \in Slots : \A t \in Slots :
          (s # t /\ calls'[s] # calls[s]) => calls'[t] = calls[t]
    /\ proc = "serving" => UNCHANGED <<proc, API_TOKEN, API_BASE, USE_EU_REGION>>

C14_NoSharedState == []C14_AsAlone /\ [][C14_OneCallPerStep]_vars

C14_Witness ==
    /\ Len(calls) = 2
    /\ calls[1].pc = "done" /\ calls[2].pc = "done"
    /\ calls[1].tool = "get_test_cases" /\ calls[2].tool = "get_test_case"
    /\ calls[1].resp.kind = "response" /\ calls[1].resp.inflight = 2
    /\ calls[2].resp.kind = "response" /\ calls[2].resp.status = 404
    /\ calls[1].resp.status = 200 /\ calls[1].ret.kind = "return"
    /\ calls[1].ret.text # "No test cases found."
    /\ calls[2].ret = Return("Error: HTTP 404: Not Found")

(***************************************************************************)
(* C15: a start with the token unset or empty fails, and a failed process  *)
(* never serves a tool call; a call is served only by a process that has   *)
(* resolved a non-empty token and one of the two API bases, every request  *)
(* carries that token, and from then on the token and the base never       *)
(* change.                                                                 *)
(***************************************************************************)
C15_Resolved ==
    /\ proc = "failed" <=> (proc # "starting" /\ API_TOKEN \in {Unset, ""})
    /\ proc = "failed" => API_BASE = Unset
    /\ proc = "serving"
          => /\ API_TOKEN \notin {Unset, ""}
             /\ API_BASE \in {ZEPHYR_API_BASE, EU_ZEPHYR_API_BASE}
             /\ API_BASE = EU_ZEPHYR_API_BASE <=> USE_EU_REGION
    /\ \A s \in Slots :
          /\ calls[s].pc # "idle" => proc = "serving"
          /\ calls[s].req # NoReq
                => calls[s].req.headers[1] = <<"Authorization", "Bearer " \o API_TOKEN>>

C15_ResolvedOnce ==
    /\ proc # "starting" => UNCHANGED <<proc, API_TOKEN, API_BASE, USE_EU_REGION>>
    /\ proc = "failed" => UNCHANGED calls
    /\ proc = "starting" => UNCHANGED calls

C15_ConfigurationBeforeCalls == []C15_Resolved /\ [][C15_ResolvedOnce]_vars

C15_Witness ==
    /\ proc = "serving" /\ API_TOKEN = "tok" /\ API_BASE = EU_ZEPHYR_API_BASE
    /\ \E s \in Slots :
          /\ calls[s].pc = "done" /\ IsTool(calls[s])
          /\ calls[s].req # NoReq
          /\ calls[s].req.headers[1] = <<"Authorization", "Bearer tok">>

C15_WitnessFailed ==
    /\ proc = "failed" /\ API_TOKEN = "" /\ API_BASE = Unset
    /\ \A s \in Slots : calls[s] = IdleCall

(***************************************************************************)
(* C16: for each of GET, POST, PUT and DELETE, in any letter case, the     *)
(* executor sends the request, and every request it sends carries exactly  *)
(* the two headers Authorization: Bearer <token> and Content-Type:         *)
(* application/json and the timeout 30.                                    *)
(***************************************************************************)
C16_SameHeadersAndTimeout ==
    \A s \in Slots :
        LET c == calls[s]
        IN  /\ (c.pc # "idle" /\ IsDirect(c) /\ c.args.method \in SupportedAnyCase)
                  => /\ c.req # NoReq
                     /\ c.req.verb = Upper(c.args.method)
                     /\ c.req.verb \in {"GET", "POST", "PUT", "DELETE"}
            /\ c.req # NoReq
                  => /\ c.req.headers = << <<"Authorization", "Bearer " \o API_TOKEN>>,
                                           <<"Content-Type", "application/json">> >>
                     /\ c.req.timeout = 30

C16_Witness ==
    \E s \in Slots :
        /\ calls[s].pc = "awaiting" /\ IsDirect(calls[s])
        /\ calls[s].args.method = "Delete"
        /\ calls[s].req.verb = "DELETE"
        /\ calls[s].req.headers = << <<"Authorization", "Bearer tok">>,
                                     <<"Content-Type", "application/json">> >>
        /\ calls[s].req.timeout = 30

C16_WitnessPost ==
    \E s \in Slots :
        /\ calls[s].pc = "awaiting" /\ IsDirect(calls[s])
        /\ calls[s].args.method = "POST"
        /\ calls[s].req.headers = << <<"Authorization", "Bearer tok">>,
                                     <<"Content-Type", "application/json">> >>
        /\ calls[s].req.timeout = 30

(***************************************************************************)
(* C17: when the awaited request raises a transport exception (connection  *)
(* error, timeout) or the body of a 2xx response cannot be decoded, the    *)
(* outcome is a record whose only key is "error", with the message         *)
(* "Request failed: " followed by the exception text; when the status is   *)
(* not 2xx the outcome has the keys "error" and "status_code", the latter  *)
(* being the status.  Both records have the key "error".                   *)
(***************************************************************************)
C17_TwoErrorShapes ==
    \A s \in Slots :
        LET c == calls[s]
        IN  /\ ExitPath(c) = "transport exception"
                  => /\ c.outcome.t = "dict" /\ Keys(c.outcome) = {"error"}
                     /\ Lookup(c.outcome, "error") = VStr("Request failed: " \o c.resp.msg)
            /\ ExitPath(c) = "decode failure"
                  => /\ c.outcome.t = "dict" /\ Keys(c.outcome) = {"error"}
                     /\ Lookup(c.outcome, "error")
                          = VStr("Request failed: " \o JsonLoads(c.resp.content).exc)
            /\ ExitPath(c) = "HTTP error"
                  => /\ c.outcome.t = "dict"
                     /\ Keys(c.outcome) = {"error", "status_code"}
                     /\ Lookup(c.outcome, "status_code") = VInt(c.resp.status)
                     /\ Lookup(c.outcome, "error")
                          = VStr("HTTP " \o ToString(c.resp.status) \o ": " \o c.resp.content)

C17_Witness ==
    \E s \in Slots :
        /\ calls[s].pc = "done"
        /\ calls[s].resp = [kind |-> "response", status |-> 200, content |-> "Not Found"]
        /\ ExitPath(calls[s]) = "decode failure"
        /\ Keys(calls[s].outcome) = {"error"}

C17_WitnessTimeout ==
    \E s \in Slots :
        /\ calls[s].pc = "done"
        /\ calls[s].resp = [kind |-> "exception", exc |-> "ReadTimeout", msg |-> ""]
        /\ calls[s].outcome = VDict(<< <<"error", VStr("Request failed: ")>> >>)

C17_WitnessHttp ==
    \E s \in Slots :
        /\ calls[s].pc = "done"
        /\ calls[s].resp = [kind |-> "response", status |-> 404, content |-> "Not Found"]
        /\ calls[s].outcome = VDict(<< <<"error", VStr("HTTP 404: Not Found")>>,
                                       <<"status_code", VInt(404)>> >>)

(***************************************************************************)
(* C18: the status is checked before the body: a response whose status is  *)
(* not 2xx and whose body is empty gives the error record with that        *)
(* status, not the success marker, and the success marker is the outcome   *)
(* of 2xx responses only.                                                  *)
(***************************************************************************)
C18_StatusBeforeEmptyBody ==
    \A s \in Slots :
        LET c == calls[s]
        IN  (c.pc = "done" /\ c.execs > 0)
            => /\ (c.resp # NoResp /\ c.resp.kind = "response"
                     /\ ~(200 <= c.resp.status /\ c.resp.status <= 299)
                     /\ c.resp.content = "")
                     => /\ c.outcome = VDict(<<
                              <<"error", VStr("HTTP " \o ToString(c.resp.status) \o ": ")>>,
                              <<"status_code", VInt(c.resp.status)>> >>)
                        /\ c.outcome # SuccessMarker
               /\ c.outcome = SuccessMarker
                     => /\ c.resp # NoResp /\ c.resp.kind = "response"
                        /\ 200 <= c.resp.status /\ c.resp.status <= 299

C18_Witness ==
    \E s \in Slots :
        /\ calls[s].pc = "done"
        /\ calls[s].resp = [kind |-> "response", status |-> 404, content |-> ""]
        /\ calls[s].outcome = VDict(<< <<"error", VStr("HTTP 404: ")>>,
                                       <<"status_code", VInt(404)>> >>)

C18_WitnessMarker ==
    \E s \in Slots :
        /\ calls[s].pc = "done"
        /\ calls[s].resp = [kind |-> "response", status |-> 204, content |-> ""]
        /\ calls[s].outcome = SuccessMarker

(***************************************************************************)
(* C19: a tool returns an "Error: "-prefixed text only when its executor   *)
(* call failed (status not 2xx, transport exception, undecodable body) or  *)
(* its JSON argument was malformed; after a 2xx response with a decodable  *)
(* JSON body, whatever the body holds, the tool returns its JSON payload   *)
(* or its confirmation sentence.                                           *)
(***************************************************************************)
C19_ErrorOnlyOnFailure ==
    \A s \in Slots :
        LET c == calls[s]
        IN  (c.pc = "done" /\ IsTool(c))
            => /\ (c.ret.kind = "return" /\ IsErrorText(c))
                     => \/ c.execs = 0 /\ RawArgument(c.tool) # ""
                        \/ ExitPath(c) \in {"HTTP error", "transport exception",
                                            "decode failure"}
               /\ ExitPath(c) = "success"
                     => /\ c.ret.kind = "return"
                        /\ ~IsErrorText(c)
                        /\ c.ret.text \in FixedSentences \/ IsJsonText(c)

(***************************************************************************)
(* C20: get_test_cases does not raise on a 2xx JSON object whose "values"  *)
(* entries are objects, whichever of priority, status, folder and owner    *)
(* are present, absent or null: it returns the JSON text with one          *)
(* projected entry per test case, in upstream order, and the pagination    *)
(* block.                                                                  *)
(***************************************************************************)
HasCases(o) ==
    /\ o.t = "dict"
    /\ "error" \notin Keys(o)
    /\ "values" \in Keys(o)
    /\ Lookup(o, "values").t = "list"
    /\ Len(Lookup(o, "values").v) > 0
    /\ \A i \in 1..Len(Lookup(o, "values").v) : Lookup(o, "values").v[i].t = "dict"

\* the id held by field k of a test case, null when k is absent or null
Nested(tc, k, id) ==
    IF k \in Keys(tc) /\ Lookup(tc, k).t = "dict"
    THEN DictGet(Lookup(tc, k), id, VNone).val
    ELSE VNone

Projected(tc) ==
    LET F(k) == DictGet(tc, k, VNone).val
    IN  VDict(<< <<"id", F("id")>>, <<"key", F("key")>>, <<"name", F("name")>>,
                 <<"priority", Nested(tc, "priority", "id")>>,
                 <<"status", Nested(tc, "status", "id")>>,
                 <<"objective", F("objective")>>,
                 <<"precondition", F("precondition")>>,
                 <<"estimatedTime", F("estimatedTime")>>,
                 <<"createdOn", F("createdOn")>>,
                 <<"folder", Nested(tc, "folder", "id")>>,
                 <<"owner", Nested(tc, "owner", "accountId")>> >>)

ProjectedPage(o) ==
    LET values == Lookup(o, "values").v
        F(k) == DictGet(o, k, VNone).val
    IN  VDict(<< <<"testCases", VList([i \in 1..Len(values) |-> Projected(values[i])])>>,
                 <<"pagination", VDict(<< <<"startAt", F("startAt")>>,
                                          <<"maxResults", F("maxResults")>>,
                                          <<"total", F("total")>>,
                                          <<"isLast", F("isLast")>> >>)>> >>)

C20_ProjectionNeverRaises ==
    \A s \in Slots :
        LET c == calls[s]
        IN  (c.tool = "get_test_cases" /\ ExitPath(c) = "success" /\ HasCases(c.outcome))
            => /\ c.ret.kind = "return"
               /\ c.ret.text = JsonDumps(ProjectedPage(c.outcome))

\* the projection is the stated one whenever priority and status are objects
\* or absent
C20_ProjectionWhenNotNull ==
    \A s \in Slots :
        LET c == calls[s]
        IN  (/\ c.tool = "get_test_cases" /\ ExitPath(c) = "success"
             /\ HasCases(c.outcome)
             /\ \A i \in 1..Len(Lookup(c.outcome, "values").v) :
                   \A k \in {"priority", "status"} :
                      k \in Keys(Lookup(c.outcome, "values").v[i])
                         => Lookup(Lookup(c.outcome, "values").v[i], k).t = "dict")
            => c.ret = Return(JsonDumps(ProjectedPage(c.outcome)))

(***************************************************************************)
(* C21: whenever a tool calls make_zephyr_request, the method it passes is *)
(* one of GET, POST, PUT and DELETE, so the call never takes the           *)
(* unsupported-method path and a request is sent; it passes a body only    *)
(* with POST or PUT; and the URL it passes starts with the configured API  *)
(* base.                                                                   *)
(***************************************************************************)
StartsWith(text, prefix) ==
    /\ Len(text) >= Len(prefix)
    /\ SubSeq(text, 1, Len(prefix)) = prefix

C21_ToolDescriptors ==
    \A s \in Slots :
        LET c == calls[s]
        IN  (IsTool(c) /\ c.execs > 0)
            => /\ c.passed # NoDescriptor
               /\ c.passed.method \in {"GET", "POST", "PUT", "DELETE"}
               /\ c.req # NoReq /\ c.req.verb = c.passed.method
               /\ ExitPath(c) # "unsupported method"
               /\ c.passed.data # VNone => c.passed.method \in {"POST", "PUT"}
               /\ c.req.json # NoBody => c.req.verb \in {"POST", "PUT"}
               /\ StartsWith(c.passed.url, API_BASE)
               /\ c.req.url = c.passed.url

C21_Witness ==
    \E s \in Slots :
        /\ calls[s].tool = "update_test_case" /\ calls[s].pc = "awaiting"
        /\ calls[s].passed.method = "PUT"
        /\ calls[s].passed.data = VDict(<< <<"name", VStr("n")>> >>)
        /\ API_BASE = EU_ZEPHYR_API_BASE
        /\ calls[s].passed.url = "https://eu.api.zephyrscale.smartbear.com/v2/testcases/SM"

C21_WitnessDelete ==
    \E s \in Slots :
        /\ calls[s].tool = "delete_link" /\ calls[s].pc = "done"
        /\ calls[s].passed.method = "DELETE" /\ calls[s].passed.data = VNone
        /\ calls[s].passed.url = API_BASE \o "/links/7"

====
